---- MODULE Spec2Model ----
(***************************************************************************)
(* Model of the synchronization engine of ethernal-cli (bin/index.js):     *)
(* the subscribe/reconnect controller, the block backfill (catchupBlocks), *)
(* block and transaction synchronisation, function-signature resolution    *)
(* and the Truffle artifact watcher.                                       *)
(*                                                                         *)
(* Every asynchronous operation of the program (a web3 request, a store    *)
(* read or write, a timer) is an entry of an in-flight set; the action     *)
(* that resolves it runs the promise callback the code attaches to it.     *)
(* A rejected promise has no handler anywhere in the source, so a          *)
(* rejection drops the operation and the callbacks chained on it, nothing  *)
(* else; likewise an exception thrown inside a watcher callback ends that  *)
(* callback only, with the assignments made before the throw kept.         *)
(*                                                                         *)
(* The specifications share the actions: Spec (controller, backfill and    *)
(* header routing, every configuration), SpecBackfill (one backfill pass   *)
(* over any persisted set), SpecHeaders (the same beside header events),   *)
(* SpecSync (the sync of a block with transactions beside the artifact     *)
(* watcher), SpecTransactions (the transaction syncs over a store of an    *)
(* earlier run), SpecArtifacts (the artifact watcher alone, --local) and   *)
(* SpecController (the controller alone, with a fair timer).               *)
(***************************************************************************)
EXTENDS Integers, Sequences, FiniteSets, TLC

(* Bounds of the model *)
MaxBlock == 3
\* cap on block numbers in the backfill specification
MaxHeight == 2
\* cap on the chain height in the controller specification
MaxErrors == 2
\* cap on the number of 'error' events the subscriptions emit
MaxEvents == 3
\* cap on the number of add/change events the watchers deliver

VARIABLES
    options,           \* yargs options: local, server; and the scheme of db.workspace.rpcServer
    started,           \* listen() has called connect()
    timers,            \* pending setTimeout(connect, 5000) timers
    nerrors,           \* 'error' events emitted so far (bounded by MaxErrors)
    disconnected,      \* an 'error' event has been emitted and no 'connected' event since
    subs,              \* subscriptions created by subscribe(), in creation order
    watchers,          \* chokidar watchers created on the project's artifacts directory
    height,            \* number of the chain's latest block
    blocks,            \* ids of the documents of db.collection('blocks')
    blockDocs,         \* the documents of db.collection('blocks'), by id
    passes,            \* catchupBlocks invocations, in invocation order
    ops,               \* in-flight web3.eth.getBlock requests and block document writes
    chain,             \* the transactions of each block of the chain
    contracts,         \* documents of db.collection('contracts'), by address
    transactions,      \* documents of db.collection('transactions'), by hash
    txOps,             \* in-flight requests of the transaction syncs
    txDone,            \* how the requests of the transaction syncs ended
    storage,           \* keys written through db.contractStorage
    contractAddresses, \* last address processed for each contract name (line 27)
    files,             \* the artifact files of the project's build directory
    events,            \* the add/change events the watchers have delivered
    artOps             \* in-flight writes of updateContractArtifact

ctlVars == <<options, started, timers, nerrors, disconnected, subs, watchers>>
chainVars == <<height, blocks, blockDocs, passes, ops>>
txVars == <<chain, contracts, transactions, txOps, txDone>>
artVars == <<storage, contractAddresses, files, events, artOps>>
vars == <<options, started, timers, nerrors, disconnected, subs, watchers, height, blocks, blockDocs,
          passes, ops,
          chain, contracts, transactions, txOps, txDone,
          storage, contractAddresses, files, events, artOps>>

(***************************************************************************)
(* Pure helpers                                                            *)
(***************************************************************************)
Range(s) == {s[k] : k \in 1..Len(s)}

\* JavaScript's null and undefined (a field that is not there)
Null == "null"
Absent == "absent"

\* (mutant) truthiness as it would be were amounts numbers: 0 is falsy
TruthyOfNumbers(v) == v \notin {Null, Absent, "", "0"}

\* what `if (v)` and `a && b` take for true; the values of the model are strings
\* (web3 renders an amount in decimal, "0" for none, and call data in
\* hexadecimal, "0x" for none: non-empty strings, which are truthy)
Truthy(v) == v \notin {Null, Absent, ""}

Max(a, b) == IF a >= b THEN a ELSE b

BlockNumbers == 1..Max(MaxBlock, MaxHeight)

(***************************************************************************)
(* The inputs: the transactions of the chain and the artifact files        *)
(***************************************************************************)
\* deployment addresses, in the order successive deployments produce them
Addrs == {"0xA1", "0xA2"}

nextAddr(a) == IF a = Null THEN "0xA1" ELSE "0xA2"

\* tCreate deploys a contract at 0xA1; tKnown calls a function of its ABI;
\* tUnknown calls it with a selector its ABI does not have
Txs == {"tCreate", "tKnown", "tUnknown"}

Tx(t) ==
    CASE t = "tCreate"  -> [hash |-> t, to |-> Null, input |-> "0x6080", value |-> "0"]
      [] t = "tKnown"   -> [hash |-> t, to |-> "0xA1", input |-> "transfer", value |-> "0"]
      [] t = "tUnknown" -> [hash |-> t, to |-> "0xA1", input |-> "0xdeadbeef", value |-> "0"]

\* receipt.contractAddress of the receipt of t
receiptContractAddress(t) == IF Tx(t).to = Null THEN "0xA1" ELSE Null

\* the build directory: A.json imports B, B.json imports C, C.json imports nothing
Files == {"A.json", "B.json", "C.json", "Migrations.json"}

ContractNames == {"A", "B", "C", "Migrations"}

\* parsedArtifact.contractName
contractNameOf(f) ==
    CASE f = "A.json" -> "A" [] f = "B.json" -> "B" [] f = "C.json" -> "C"
      [] OTHER -> "Migrations"

\* the keys of parsedArtifact.ast.exportedSymbols
exportedSymbols(f) ==
    CASE f = "A.json" -> {"A", "B"} [] f = "B.json" -> {"B", "C"} [] f = "C.json" -> {"C"}
      [] OTHER -> {"Migrations"}

\* parsedArtifact.abi
abiOf(f) ==
    CASE f = "A.json" -> "abiA" [] f = "B.json" -> "abiB" [] f = "C.json" -> "abiC"
      [] OTHER -> "abiMigrations"

\* parsedArtifact.source
sourceOf(f) ==
    CASE f = "A.json" -> "srcA" [] f = "B.json" -> "srcB" [] f = "C.json" -> "srcC"
      [] OTHER -> "srcMigrations"

\* the function selectors an abi declares
abiFunctions(abi) ==
    CASE abi = "abiA" -> {"transfer"} [] abi = "abiB" -> {"balanceOf"} [] abi = "abiC" -> {"mint"}
      [] OTHER -> {"setCompleted"}

\* a document that does not exist (doc.exists is false)
NoContract == [exists |-> FALSE, address |-> Absent, name |-> Absent, abi |-> Absent]
NoTransaction == [exists |-> FALSE, functionSignature |-> Absent]
NoBlock == [exists |-> FALSE, number |-> 0, transactions |-> {}]

\* the file <name>.json of a contract name (line 242)
fileOf(name) ==
    CASE name = "A" -> "A.json" [] name = "B" -> "B.json" [] name = "C" -> "C.json"
      [] OTHER -> "Migrations.json"

\* db.collection('blocks').orderBy('number', 'asc').get(), then
\* snapshot.forEach((block) => ids.push(block.id)).  A block document's id is
\* its number in decimal; every comparison of catchupBlocks is a loose one
\* (!=, <=), which compares such an id numerically, so ids are numbers here.
RECURSIVE orderByNumberAsc(_)
orderByNumberAsc(S) ==
    IF S = {} THEN <<>>
    ELSE LET m == CHOOSE x \in S : \A y \in S : x <= y
         IN  <<m>> \o orderByNumberAsc(S \ {m})

\* lines 87-89: the latest number is appended to ids unless it ends ids
pushLatest(ids, latest) ==
    IF Len(ids) = 0 \/ ids[Len(ids)] # latest THEN Append(ids, latest) ELSE ids

\* lines 91-96: the walk over targetValue; i is the (1-based) pointer into ids.
\* ids[i] past the end is undefined in the code, which differs from every target.
RECURSIVE walkTargets(_, _, _, _)
walkTargets(ids, i, targetValue, missing) ==
    IF targetValue > ids[Len(ids)] THEN missing
    ELSE IF i > Len(ids) \/ ids[i] # targetValue
         THEN walkTargets(ids, i, targetValue + 1, Append(missing, targetValue))
         ELSE walkTargets(ids, i + 1, targetValue + 1, missing)

\* the missing list catchupBlocks computes from the snapshot and the latest number
computeMissing(persisted, latest) ==
    walkTargets(pushLatest(persisted, latest), 1, 1, <<>>)

\* sanitize(block) for block number n (line 300): the block web3 returns has no
\* null member in the model, so every member stays
blockRecord(n) == [exists |-> TRUE, number |-> n, transactions |-> chain[n]]

\* the block documents hold what a sync of the block wrote; an empty store and
\* nothing in flight on the transaction and artifact side
InitStore ==
    /\ blockDocs = [id \in BlockNumbers |-> IF id \in blocks THEN blockRecord(id) ELSE NoBlock]
    /\ contracts = [a \in Addrs |-> NoContract]
    /\ transactions = [t \in Txs |-> NoTransaction]
    /\ txOps = {}
    /\ txDone = {}
    /\ storage = {}
    /\ contractAddresses = [c \in ContractNames |-> Absent]
    /\ events = <<>>
    /\ artOps = {}

(***************************************************************************)
(* Initial state: the process has parsed its options and logged in; the    *)
(* store may hold blocks of earlier runs; the chain has some height.       *)
(***************************************************************************)
Init ==
    /\ options \in [local : BOOLEAN, server : BOOLEAN, rpc : {"ws", "http"}]
    /\ started = FALSE
    /\ timers = 0
    /\ nerrors = 0
    /\ disconnected = FALSE
    /\ subs = <<>>
    /\ watchers = 0
    /\ height \in 1..MaxHeight
    /\ blocks \in SUBSET (1..height)
    /\ passes = <<>>
    /\ ops = {}
    /\ chain = [n \in BlockNumbers |-> {}]
    /\ InitStore
    /\ files = [f \in Files |-> [st |-> "ok", addr |-> Null]]

(***************************************************************************)
(* Resilience controller                                                   *)
(***************************************************************************)
\* watchDirectories(): one more watcher on the project's artifacts directory
watchDirectories == watchers' = watchers + 1

\* subscribe(): a new subscription on the web3 instance connect() just created.
\* seen is the last header it delivered; written is bookkeeping.
subscribe == subs' = Append(subs, [st |-> "subscribing", seen |-> 0, written |-> {}])

\* catchupBlocks() up to its first suspension: the blocks query is in flight
catchupBlocks ==
    passes' = Append(passes, [pc |-> "query", ids |-> <<>>, latest |-> 0,
                              missing |-> <<>>, fetched |-> {}, fetchFailed |-> {},
                              written |-> {}, writeFailed |-> {}])

\* (mutant) connect subscribes whatever the configuration
connectIgnoresLocal == subscribe /\ UNCHANGED watchers

\* connect(), lines 30-50
connect ==
    IF options.local
    THEN watchDirectories /\ UNCHANGED subs
    ELSE subscribe /\ UNCHANGED watchers

\* listen() calls connect() once, after login and setWorkspace
listen ==
    /\ ~started
    /\ started' = TRUE
    /\ connect
    /\ UNCHANGED <<options, timers, nerrors, disconnected>>
    /\ UNCHANGED <<chainVars, txVars, artVars>>

\* a timer set by onError fires and calls connect()
reconnectTimer ==
    /\ timers > 0
    /\ timers' = timers - 1
    /\ connect
    /\ UNCHANGED <<options, started, nerrors, disconnected>>
    /\ UNCHANGED <<chainVars, txVars, artVars>>

\* onConnected(), lines 104-113: the 'connected' event of subscription s.
\* An http provider has no subscriptions, so only a websocket one connects.
onConnected(s) ==
    /\ subs[s].st = "subscribing"
    /\ options.rpc = "ws"
    /\ subs' = [subs EXCEPT ![s].st = "connected", ![s].seen = height]
    /\ disconnected' = FALSE
    /\ IF options.server
       THEN UNCHANGED <<watchers, passes>>
       ELSE watchDirectories /\ catchupBlocks
    /\ UNCHANGED <<options, started, timers, nerrors, height, blocks, blockDocs, ops>>
    /\ UNCHANGED <<txVars, artVars>>

\* onData(blockHeader, error), lines 115-121: subscription s delivers the next
\* header; hasReason is (error && error.reason)
onData(s, hasReason) ==
    /\ subs[s].st = "connected"
    /\ subs[s].seen < height
    /\ LET n == subs[s].seen + 1 IN
        /\ subs' = [subs EXCEPT ![s].seen = n]
        /\ ops' = IF hasReason THEN ops
                  ELSE ops \cup {[kind |-> "getBlock", src |-> <<"sub", s>>, n |-> n]}
    /\ UNCHANGED <<options, started, timers, nerrors, disconnected, watchers, height, blocks,
                   blockDocs, passes>>
    /\ UNCHANGED <<txVars, artVars>>

\* (mutant) only the first error schedules a reconnect
setTimeoutConnectOnce == timers' = IF nerrors = 0 THEN timers + 1 ELSE timers

\* setTimeout(connect, 5 * 1000), line 132: one more pending timer
setTimeoutConnect == timers' = timers + 1

\* onError(error), lines 123-133: subscription s emits 'error'
onError(s) ==
    /\ nerrors < MaxErrors
    /\ nerrors' = nerrors + 1
    /\ setTimeoutConnect
    /\ disconnected' = TRUE
    /\ UNCHANGED <<options, started, subs, watchers>>
    /\ UNCHANGED <<chainVars, txVars, artVars>>

(***************************************************************************)
(* The chain                                                               *)
(***************************************************************************)
\* the node mines a block (cap bounds the model's chain)
newBlock(cap) ==
    /\ height < cap
    /\ height' = height + 1
    /\ UNCHANGED <<blocks, blockDocs, passes, ops>>
    /\ UNCHANGED <<ctlVars, txVars, artVars>>

(***************************************************************************)
(* Backfill: catchupBlocks, lines 76-102                                   *)
(***************************************************************************)
\* the blocks query resolves (lines 82-85): ids is the snapshot, in ascending
\* order, and getBlock('latest') is issued; or it rejects and the pass ends
snapshotResolved(p, ok) ==
    /\ passes[p].pc = "query"
    /\ passes' = IF ok
                 THEN [passes EXCEPT ![p].pc = "latest",
                                     ![p].ids = orderByNumberAsc(blocks)]
                 ELSE [passes EXCEPT ![p].pc = "aborted"]
    /\ UNCHANGED <<height, blocks, blockDocs, ops>>
    /\ UNCHANGED <<ctlVars, txVars, artVars>>

\* getBlock('latest') resolves (lines 85-100): the missing numbers are computed
\* and one getBlock is issued for each; or it rejects and the pass ends
latestResolved(p, ok) ==
    /\ passes[p].pc = "latest"
    /\ IF ok
       THEN LET missing == computeMissing(passes[p].ids, height) IN
            /\ passes' = [passes EXCEPT ![p].pc = "fetching",
                                        ![p].latest = height,
                                        ![p].missing = missing]
            /\ ops' = ops \cup {[kind |-> "getBlock", src |-> <<"pass", p>>, n |-> n] :
                                n \in Range(missing)}
       ELSE /\ passes' = [passes EXCEPT ![p].pc = "aborted"]
            /\ UNCHANGED ops
    /\ UNCHANGED <<height, blocks, blockDocs>>
    /\ UNCHANGED <<ctlVars, txVars, artVars>>

\* bookkeeping of a pass: what became of each of its requests
noteFetch(op, ok) ==
    IF op.src[1] = "pass"
    THEN IF ok THEN [passes EXCEPT ![op.src[2]].fetched = @ \cup {op.n}]
         ELSE [passes EXCEPT ![op.src[2]].fetchFailed = @ \cup {op.n}]
    ELSE passes

noteWrite(op, ok) ==
    IF op.src[1] = "pass"
    THEN IF ok THEN [passes EXCEPT ![op.src[2]].written = @ \cup {op.n}]
         ELSE [passes EXCEPT ![op.src[2]].writeFailed = @ \cup {op.n}]
    ELSE passes

\* doc(key).set(data, { merge }): without merge the document becomes data; with
\* merge the fields data gives replace those of the document, the others stay
docSet(old, data, merge) ==
    [k \in DOMAIN data |->
        IF k = "exists" THEN TRUE
        ELSE IF merge /\ data[k] = Absent THEN old[k]
        ELSE data[k]]

\* bookkeeping of a subscription: the blocks its headers got persisted
noteHeaderWrite(op, ok) ==
    IF op.src[1] = "sub" /\ ok
    THEN [subs EXCEPT ![op.src[2]].written = @ \cup {op.n}]
    ELSE subs

\* (mutant) collection('blocks').add(sBlock): each write gets an id of its own
blockDocIdFresh(n) == (Cardinality(blocks) % MaxBlock) + 1

\* sBlock.number.toString() (line 301), the key of the block document: the
\* number in decimal, which catchupBlocks reads back as a number
blockDocId(n) == n

\* syncBlock(block), lines 299-306: the write of the block document is issued,
\* and one getTransactionReceipt for each transaction of the block
syncBlock(op) ==
    /\ ops' = (ops \ {op}) \cup {[kind |-> "setBlock", src |-> op.src, n |-> op.n]}
    /\ txOps' = txOps \cup {[kind |-> "getReceipt", src |-> op.src, tx |-> t, sig |-> Absent] :
                             t \in chain[op.n]}

\* (mutant) a rejected getBlock ends the pass: its other requests are dropped
fetchRejectedAbortsPass(op) == {o \in ops : ~(o.kind = "getBlock" /\ o.src = op.src)}

\* a rejected getBlock: nothing is chained on it but syncBlock
fetchRejected(op) == ops \ {op}

\* web3.eth.getBlock(n, true) settles (lines 99, 120): resolved, it runs
\* syncBlock; rejected, only this request is dropped
getBlockSettled(op, ok) ==
    /\ op \in ops
    /\ op.kind = "getBlock"
    /\ IF ok THEN syncBlock(op)
             ELSE ops' = fetchRejected(op) /\ UNCHANGED txOps
    /\ passes' = noteFetch(op, ok)
    /\ UNCHANGED <<height, blocks, blockDocs, chain, contracts, transactions, txDone>>
    /\ UNCHANGED <<ctlVars, artVars>>

\* db.collection('blocks').doc(number).set(sBlock) settles (line 301)
setBlockSettled(op, ok) ==
    /\ op \in ops
    /\ op.kind = "setBlock"
    /\ ops' = ops \ {op}
    /\ blocks' = IF ok THEN blocks \cup {blockDocId(op.n)} ELSE blocks
    /\ blockDocs' = IF ok
                     THEN [blockDocs EXCEPT ![blockDocId(op.n)] =
                              docSet(@, blockRecord(op.n), FALSE)]
                     ELSE blockDocs
    /\ passes' = noteWrite(op, ok)
    /\ subs' = noteHeaderWrite(op, ok)
    /\ UNCHANGED <<options, started, timers, nerrors, disconnected, watchers, height>>
    /\ UNCHANGED <<txVars, artVars>>

(***************************************************************************)
(* Transaction sync: syncTransaction and getFunctionSignatureForTransaction*)
(***************************************************************************)
\* sanitize(obj), lines 354-356: the entries whose value is null or undefined
\* are removed
sanitize(obj) == [k \in DOMAIN obj |-> IF obj[k] \in {Null, Absent} THEN Absent ELSE obj[k]]

\* a request of the sync of transaction t started by src
txOp(kind, src, t, sig) == [kind |-> kind, src |-> src, tx |-> t, sig |-> sig]

\* lines 320-330: the transaction document is written; for a transaction with
\* no `to`, the contract document is set to { address } (no merge option)
issueWrites(src, t, sig) ==
    {txOp("setTransaction", src, t, sig)}
        \cup (IF ~Truthy(sanitize(Tx(t)).to) THEN {txOp("setContract", src, t, Absent)} ELSE {})

\* (mutant) the signature resolution is not awaited: the writes are issued at once
syncTransactionNoAwait(src, t) ==
    issueWrites(src, t, Absent)
        \cup (IF Truthy(Tx(t).to) /\ Truthy(Tx(t).input) /\ Truthy(Tx(t).value)
              THEN {txOp("getContract", src, t, Absent)} ELSE {})

\* syncTransaction(block, transaction, receipt), lines 308-318, up to its first
\* suspension: with to, input and value all truthy it awaits the contract
\* document (lines 316-317, 334); otherwise it issues its writes
syncTransaction(src, t) ==
    IF Truthy(Tx(t).to) /\ Truthy(Tx(t).input) /\ Truthy(Tx(t).value)
    THEN {txOp("getContract", src, t, Absent)}
    ELSE issueWrites(src, t, Absent)

\* getTransactionReceipt settles (line 304): resolved, it runs syncTransaction
receiptSettled(op, ok) ==
    /\ op \in txOps
    /\ op.kind = "getReceipt"
    /\ txOps' = (txOps \ {op}) \cup (IF ok THEN syncTransaction(op.src, op.tx) ELSE {})
    /\ txDone' = txDone \cup {[kind |-> op.kind, src |-> op.src, tx |-> op.tx,
                                end |-> IF ok THEN "resolved" ELSE "rejected"]}
    /\ UNCHANGED <<chain, contracts, transactions>>
    /\ UNCHANGED <<ctlVars, chainVars, artVars>>

\* lines 336-351 on the document doc: null without a document or an abi;
\* otherwise Interface.parseTransaction, which throws on a selector the abi
\* does not declare (reported here as "throw")
signatureOf(doc, input) ==
    IF ~doc.exists THEN Null
    ELSE IF ~Truthy(doc.abi) THEN Null
    ELSE IF input \in abiFunctions(doc.abi) THEN input
    ELSE "throw"

\* what syncTransaction does with the outcome of the signature resolution:
\* an exception leaves syncTransaction before line 320, so nothing is written
afterSignature(op, sig) ==
    IF sig = "throw" THEN {} ELSE issueWrites(op.src, op.tx, sig)

\* db.collection('contracts').doc(transaction.to).get() settles (line 334)
getContractSettled(op, ok) ==
    /\ op \in txOps
    /\ op.kind = "getContract"
    /\ LET sig == IF ok THEN signatureOf(contracts[Tx(op.tx).to], Tx(op.tx).input)
                   ELSE "throw" IN
        /\ txOps' = (txOps \ {op}) \cup afterSignature(op, sig)
        /\ txDone' = txDone \cup {[kind |-> op.kind, src |-> op.src, tx |-> op.tx,
                                    end |-> IF ~ok THEN "rejected"
                                            ELSE IF sig = "throw" THEN "decodeError"
                                            ELSE "resolved"]}
    /\ UNCHANGED <<chain, contracts, transactions>>
    /\ UNCHANGED <<ctlVars, chainVars, artVars>>

\* db.collection('transactions').doc(hash).set(txSynced) settles (lines 320-323)
setTransactionSettled(op, ok) ==
    /\ op \in txOps
    /\ op.kind = "setTransaction"
    /\ txOps' = txOps \ {op}
    /\ transactions' = IF ok THEN [transactions EXCEPT ![op.tx] =
                                [exists |-> TRUE, functionSignature |-> op.sig]]
                       ELSE transactions
    /\ txDone' = txDone \cup {[kind |-> op.kind, src |-> op.src, tx |-> op.tx,
                                end |-> IF ok THEN "resolved" ELSE "rejected"]}
    /\ UNCHANGED <<chain, contracts>>
    /\ UNCHANGED <<ctlVars, chainVars, artVars>>

\* the option object of the set of lines 326-328: there is none
creationSetMerge == FALSE

\* db.collection('contracts').doc(contractAddress).set({ address }) settles
\* (lines 326-329)
setContractSettled(op, ok) ==
    /\ op \in txOps
    /\ op.kind = "setContract"
    /\ txOps' = txOps \ {op}
    /\ LET a == receiptContractAddress(op.tx) IN
        contracts' = IF ok
                     THEN [contracts EXCEPT ![a] =
                              docSet(@, [exists |-> TRUE, address |-> a, name |-> Absent, abi |-> Absent],
                                     creationSetMerge)]
                     ELSE contracts
    /\ txDone' = txDone \cup {[kind |-> op.kind, src |-> op.src, tx |-> op.tx,
                                end |-> IF ok THEN "resolved" ELSE "rejected"]}
    /\ UNCHANGED <<chain, transactions>>
    /\ UNCHANGED <<ctlVars, chainVars, artVars>>

(***************************************************************************)
(* Artifacts: getTruffleArtifact and updateContractArtifact                *)
(***************************************************************************)
\* (mutant) the resolved address is not compared with the last one processed
addressPresent(addr, name) == Truthy(addr)

\* the condition of line 238
addressChanged(addr, name) == Truthy(addr) /\ addr # contractAddresses[name]

\* (mutant) the exported symbols of the dependencies add keys to the map
getArtifactDependenciesDeep(f) ==
    {sym \in UNION {exportedSymbols(fileOf(s)) : s \in exportedSymbols(f)} :
        sym # contractNameOf(f)}

\* getArtifactDependencies(parsedArtifact), lines 288-297: the keys of the map
\* (every value is null when it returns)
getArtifactDependencies(f) == {sym \in exportedSymbols(f) : sym # contractNameOf(f)}

\* JSON.parse(fs.readFileSync(...)) of lines 235-236 and 242 returns
parses(f) == files[f].st \in {"ok", "noAbi"}

\* parsedArtifact.abi of the file as it is now: undefined when the file has no
\* abi member
parsedAbi(f) == IF files[f].st = "noAbi" THEN Absent ELSE abiOf(f)

\* the bundle of lines 243-248 and 254-259 for the artifact file f, as
\* JSON.stringify renders it (an object with these four members; an undefined
\* member is left out)
bundleOf(f) ==
    [contractName |-> contractNameOf(f), abi |-> parsedAbi(f),
     ast |-> exportedSymbols(f), source |-> sourceOf(f)]

\* lines 241-249: the loop over the keys fills each with the bundle of <key>.json
loadDependencies(keys) == [key \in keys |-> bundleOf(fileOf(key))]

\* contract.dependencies of a call that returns no contract
NoDependencies == loadDependencies({})

\* getTruffleArtifact(artifactsDir, fileName), lines 231-265: how the call ends
\* ("contract": it returns a contract; "none": it returns undefined; "threw":
\* readFileSync or JSON.parse threw), the address it resolved if it got that
\* far, contract.abi and contract.dependencies, and contractAddresses when it
\* ends.  Line 239 records the address before the dependencies are read.  No
\* line looks whether abi or source is there.
getTruffleArtifact(f) ==
    IF f = "Migrations.json"
    THEN [result |-> "none", addr |-> Absent, cache |-> contractAddresses,
          abi |-> Absent, deps |-> NoDependencies]
    ELSE IF ~parses(f)
    THEN [result |-> "threw", addr |-> Absent, cache |-> contractAddresses,
          abi |-> Absent, deps |-> NoDependencies]
    ELSE LET addr == files[f].addr
             name == contractNameOf(f)
             cache == [contractAddresses EXCEPT ![name] = addr]
         IN  IF ~addressChanged(addr, name)
             THEN [result |-> "none", addr |-> addr, cache |-> contractAddresses,
                   abi |-> Absent, deps |-> NoDependencies]
             ELSE IF \E d \in getArtifactDependencies(f) : ~parses(fileOf(d))
             THEN [result |-> "threw", addr |-> addr, cache |-> cache,
                   abi |-> Absent, deps |-> NoDependencies]
             ELSE [result |-> "contract", addr |-> addr, cache |-> cache,
                   abi |-> parsedAbi(f),
                   deps |-> loadDependencies(getArtifactDependencies(f))]

\* updateContractArtifact(contract), lines 178-183, for the contract of event e:
\* nothing without a contract, otherwise the two contractStorage writes
updateContractArtifact(result, e) ==
    IF result = "contract"
    THEN {[kind |-> "artifact", ev |-> e], [kind |-> "dependencies", ev |-> e]}
    ELSE {}

\* a watcher's 'add' or 'change' callback for file f (lines 206-211)
artifactEvent(f) ==
    /\ watchers > 0
    /\ Len(events) < MaxEvents
    /\ files[f].st # "absent"
    /\ LET r == getTruffleArtifact(f)
           e == Len(events) + 1 IN
        /\ contractAddresses' = r.cache
        /\ events' = Append(events, [file |-> f, st |-> files[f].st, addr |-> r.addr,
                                      result |-> r.result, abi |-> r.abi, deps |-> r.deps,
                                      stored |-> {}, failed |-> {}])
        /\ artOps' = artOps \cup updateContractArtifact(r.result, e)
    /\ UNCHANGED <<storage, files>>
    /\ UNCHANGED <<ctlVars, chainVars, txVars>>

\* bookkeeping of an event: which of its writes succeeded and which failed
noteStore(op, ok) ==
    IF ok THEN [events EXCEPT ![op.ev].stored = @ \cup {op.kind}]
    ELSE [events EXCEPT ![op.ev].failed = @ \cup {op.kind}]

\* (mutant) the contract document is set as soon as one blob write resolves
promiseAny(op, ok) == ok

\* Promise.all([storeArtifactPromise, storeDependenciesPromise]) (line 184)
\* resolves when the write op resolves and the other one has resolved already
promiseAll(op, ok) == ok /\ events[op.ev].stored # {}

\* a contractStorage(...).set settles (lines 181-185); when both have resolved,
\* Promise.all resolves and the contract document is set
blobSettled(op, ok) ==
    /\ op \in artOps
    /\ op.kind \in {"artifact", "dependencies"}
    /\ events' = noteStore(op, ok)
    /\ storage' = IF ok THEN storage \cup {<<events[op.ev].addr, op.kind>>} ELSE storage
    /\ artOps' = (artOps \ {op}) \cup
            (IF promiseAll(op, ok)
             THEN {[kind |-> "contract", ev |-> op.ev]} ELSE {})
    /\ UNCHANGED <<contractAddresses, files>>
    /\ UNCHANGED <<ctlVars, chainVars, txVars>>

\* db.collection('contracts').doc(address).set({...}, { merge: true }) settles
\* (lines 186-193); the store may refuse a document (ok = FALSE), one with an
\* undefined abi for instance
contractSettled(op, ok) ==
    /\ op \in artOps
    /\ op.kind = "contract"
    /\ events' = noteStore(op, ok)
    /\ artOps' = artOps \ {op}
    /\ LET ev == events[op.ev] IN
        contracts' = IF ok
                     THEN [contracts EXCEPT ![ev.addr] =
                              docSet(@, [exists |-> TRUE, address |-> ev.addr,
                                         name |-> contractNameOf(ev.file),
                                         abi |-> ev.abi], TRUE)]
                     ELSE contracts
    /\ UNCHANGED <<chain, transactions, txOps, txDone>>
    /\ UNCHANGED <<storage, contractAddresses, files>>
    /\ UNCHANGED <<ctlVars, chainVars>>

\* truffle migrate deploys the contract of A.json again, at a new address
deploy(f) ==
    /\ f = "A.json"
    /\ files[f].st = "ok"
    /\ files[f].addr # "0xA2"
    /\ files' = [files EXCEPT ![f].addr = nextAddr(@)]
    /\ UNCHANGED <<storage, contractAddresses, events, artOps>>
    /\ UNCHANGED <<ctlVars, chainVars, txVars>>

\* the compiler writes (again) a file that was missing or unreadable
compile(f) ==
    /\ files[f].st # "ok"
    /\ files' = [files EXCEPT ![f].st = "ok"]
    /\ UNCHANGED <<storage, contractAddresses, events, artOps>>
    /\ UNCHANGED <<ctlVars, chainVars, txVars>>

(***************************************************************************)
(* Specification of the controller with backfill and header routing        *)
(***************************************************************************)
Next ==
    \/ listen
    \/ reconnectTimer
    \/ \E s \in 1..Len(subs) : onConnected(s)
    \/ \E s \in 1..Len(subs) : \E hasReason \in BOOLEAN : onData(s, hasReason)
    \/ \E s \in 1..Len(subs) : onError(s)
    \/ newBlock(MaxHeight)
    \/ \E p \in 1..Len(passes) : \E ok \in BOOLEAN : snapshotResolved(p, ok)
    \/ \E p \in 1..Len(passes) : \E ok \in BOOLEAN : latestResolved(p, ok)
    \/ \E op \in ops : \E ok \in BOOLEAN : getBlockSettled(op, ok)
    \/ \E op \in ops : \E ok \in BOOLEAN : setBlockSettled(op, ok)

Spec == Init /\ [][Next]_vars

(***************************************************************************)
(* Specification of one backfill pass: a websocket endpoint, neither       *)
(* --local nor --server, no transport error.  The store outlives the       *)
(* chain (a development chain restarted from genesis), so the persisted    *)
(* numbers are any subset of 1..MaxBlock, whatever the chain's height.     *)
(***************************************************************************)
InitBackfill ==
    /\ options = [local |-> FALSE, server |-> FALSE, rpc |-> "ws"]
    /\ started = FALSE
    /\ timers = 0
    /\ nerrors = 0
    /\ disconnected = FALSE
    /\ subs = <<>>
    /\ watchers = 0
    /\ height \in 1..MaxBlock
    /\ blocks \in SUBSET (1..MaxBlock)
    /\ passes = <<>>
    /\ ops = {}
    /\ chain = [n \in BlockNumbers |-> {}]
    /\ InitStore
    /\ files = [f \in Files |-> [st |-> "ok", addr |-> Null]]

NextBackfill ==
    \/ listen
    \/ \E s \in 1..Len(subs) : onConnected(s)
    \/ newBlock(MaxBlock)
    \/ \E p \in 1..Len(passes) : \E ok \in BOOLEAN : snapshotResolved(p, ok)
    \/ \E p \in 1..Len(passes) : \E ok \in BOOLEAN : latestResolved(p, ok)
    \/ \E op \in ops : \E ok \in BOOLEAN : getBlockSettled(op, ok)
    \/ \E op \in ops : \E ok \in BOOLEAN : setBlockSettled(op, ok)

SpecBackfill == InitBackfill /\ [][NextBackfill]_vars

(***************************************************************************)
(* Claims about the backfill                                               *)
(***************************************************************************)
\* the requests of pass p still in flight, by kind
InFlight(p, kind) == {op.n : op \in {o \in ops : o.kind = kind /\ o.src = <<"pass", p>>}}

\* the numbers pass p has asked the node for
Requested(p) == InFlight(p, "getBlock") \cup passes[p].fetched \cup passes[p].fetchFailed

\* pass p has computed its missing list
Computed(p) == passes[p].pc = "fetching"

\* pass p is over and none of its fetches or writes failed
CompletedOk(p) ==
    /\ Computed(p)
    /\ InFlight(p, "getBlock") = {} /\ InFlight(p, "setBlock") = {}
    /\ passes[p].fetchFailed = {} /\ passes[p].writeFailed = {}

LastOr(s, d) == IF Len(s) = 0 THEN d ELSE s[Len(s)]

\* C1 (as claimed): the missing list of a pass is the ascending sequence of the
\* integers of [1, max(L, last(P))] that are absent from the persisted numbers P.
C1_MissingIsComplement ==
    \A p \in 1..Len(passes) :
        Computed(p) =>
            passes[p].missing =
                orderByNumberAsc((1..Max(passes[p].latest, LastOr(passes[p].ids, 0)))
                                 \ Range(passes[p].ids))

\* C2 (as claimed): when the persisted sequence is empty or does not end with the
\* latest number L, the pass fetches block L.
C2_LatestIsFetched ==
    \A p \in 1..Len(passes) :
        (Computed(p) /\ LastOr(passes[p].ids, 0) # passes[p].latest)
            => passes[p].latest \in Requested(p)

\* C3 (as claimed): once a pass whose fetches and writes all succeeded is over,
\* the persisted numbers are exactly 1..L, for a snapshot within 1..L.
C3_BackfillFillsUpToLatest ==
    \A p \in 1..Len(passes) :
        (CompletedOk(p) /\ Range(passes[p].ids) \subseteq 1..passes[p].latest)
            => blocks = 1..passes[p].latest

\* C10: a failed fetch leaves the other missing blocks of the pass alone: every
\* missing number is in exactly one of in flight, failed, fetched; a failed one is
\* never in flight again; every fetched one went to syncBlock (its write is in
\* flight, done or failed) and every written one is persisted.
C10_FetchFailureIsIsolated ==
    \A p \in 1..Len(passes) :
        Computed(p) =>
            /\ InFlight(p, "getBlock") \cup passes[p].fetched \cup passes[p].fetchFailed
                    = Range(passes[p].missing)
            /\ InFlight(p, "getBlock") \cap passes[p].fetchFailed = {}
            /\ InFlight(p, "getBlock") \cap passes[p].fetched = {}
            /\ passes[p].fetched \cap passes[p].fetchFailed = {}
            /\ passes[p].fetched = InFlight(p, "setBlock") \cup passes[p].written
                                        \cup passes[p].writeFailed
            /\ passes[p].written \subseteq blocks

\* a pass in which one fetch failed and another block was fetched and persisted
C10_Witness ==
    \E p \in 1..Len(passes) :
        /\ Computed(p)
        /\ passes[p].fetchFailed # {}
        /\ passes[p].written # {}
        /\ InFlight(p, "getBlock") = {}

(***************************************************************************)
(* Claims about the controller                                             *)
(***************************************************************************)
Connected == {s \in 1..Len(subs) : subs[s].st = "connected"}

\* C4 (as claimed): one reconnect per error event (pending as a timer or already
\* run as a connect call), and never two reconnects pending at once.
C4_OneReconnectAtATime ==
    /\ (started /\ ~options.local) => timers + (Len(subs) - 1) = nerrors
    /\ timers <= 1

\* C5 (as claimed): in a configuration that listens for transactions (not
\* --local), --server included, each 'connected' event starts a backfill pass.
C5_ConnectedStartsBackfill ==
    ~options.local => Len(passes) = Cardinality(Connected)

(***************************************************************************)
(* Specification of the artifact watcher alone: the --local configuration  *)
(***************************************************************************)
InitArtifacts ==
    /\ options = [local |-> TRUE, server |-> FALSE, rpc |-> "ws"]
    /\ started = FALSE
    /\ timers = 0
    /\ nerrors = 0
    /\ disconnected = FALSE
    /\ subs = <<>>
    /\ watchers = 0
    /\ height = 1
    /\ blocks = {}
    /\ passes = <<>>
    /\ ops = {}
    /\ chain = [n \in BlockNumbers |-> {}]
    /\ InitStore
    /\ \E stA \in {"ok", "garbage", "noAbi"}, addrA \in {Null, "0xA1"}, stB \in {"ok", "absent"} :
          files = [f \in Files |->
                      IF f = "A.json" THEN [st |-> stA, addr |-> addrA]
                      ELSE IF f = "B.json" THEN [st |-> stB, addr |-> Null]
                      ELSE [st |-> "ok", addr |-> Null]]

NextArtifacts ==
    \/ listen
    \/ \E f \in Files : artifactEvent(f)
    \/ \E op \in artOps : \E ok \in BOOLEAN : blobSettled(op, ok)
    \/ \E op \in artOps : \E ok \in BOOLEAN : contractSettled(op, ok)
    \/ \E f \in Files : deploy(f)
    \/ \E f \in Files : compile(f)

SpecArtifacts == InitArtifacts /\ [][NextArtifacts]_vars

(***************************************************************************)
(* Specification of the sync of one block with transactions, next to the   *)
(* artifact watcher: block 1 holds the three transactions, the chain is at *)
(* block 2, A.json is deployed at 0xA1                                     *)
(***************************************************************************)
InitSync ==
    /\ options = [local |-> FALSE, server |-> FALSE, rpc |-> "ws"]
    /\ started = FALSE
    /\ timers = 0
    /\ nerrors = 0
    /\ disconnected = FALSE
    /\ subs = <<>>
    /\ watchers = 0
    /\ height = 2
    /\ blocks = {}
    /\ passes = <<>>
    /\ ops = {}
    /\ chain = [n \in BlockNumbers |-> IF n = 1 THEN Txs ELSE {}]
    /\ InitStore
    /\ files = [f \in Files |-> [st |-> "ok", addr |-> IF f = "A.json" THEN "0xA1" ELSE Null]]

NextSync ==
    \/ listen
    \/ \E s \in 1..Len(subs) : onConnected(s)
    \/ \E p \in 1..Len(passes) : \E ok \in BOOLEAN : snapshotResolved(p, ok)
    \/ \E p \in 1..Len(passes) : \E ok \in BOOLEAN : latestResolved(p, ok)
    \/ \E op \in ops : \E ok \in BOOLEAN : getBlockSettled(op, ok)
    \/ \E op \in ops : \E ok \in BOOLEAN : setBlockSettled(op, ok)
    \/ \E op \in txOps : \E ok \in BOOLEAN : receiptSettled(op, ok)
    \/ \E op \in txOps : \E ok \in BOOLEAN : getContractSettled(op, ok)
    \/ \E op \in txOps : \E ok \in BOOLEAN : setTransactionSettled(op, ok)
    \/ \E op \in txOps : \E ok \in BOOLEAN : setContractSettled(op, ok)
    \/ \E f \in Files : artifactEvent(f)
    \/ \E op \in artOps : \E ok \in BOOLEAN : blobSettled(op, ok)
    \/ \E op \in artOps : \E ok \in BOOLEAN : contractSettled(op, ok)

SpecSync == InitSync /\ [][NextSync]_vars

(***************************************************************************)
(* Claims about the transaction sync                                       *)
(***************************************************************************)
\* the write of the document of transaction t, issued by the sync src started,
\* with functionSignature sig: in flight or settled
TransactionWriteIssued(src, t, sig) ==
    \/ txOp("setTransaction", src, t, sig) \in txOps
    \/ \E d \in txDone : d.kind = "setTransaction" /\ d.src = src /\ d.tx = t

\* C6 (as claimed): when the call data of a transaction does not decode against
\* the stored ABI, the transaction document is still written, with
\* functionSignature null.
C6_DecodeFailureKeepsTransaction ==
    \A d \in txDone :
        (d.kind = "getContract" /\ d.end = "decodeError")
            => TransactionWriteIssued(d.src, d.tx, Null)

\* C7 (as claimed): the write of the contract document by the sync of a creation
\* transaction leaves a name and an ABI already stored at that address unchanged.
C7_CreationKeepsMetadata ==
    [][\A op \in txOps :
         (op.kind = "setContract" /\ op \notin txOps')
            => LET a == receiptContractAddress(op.tx) IN
                /\ Truthy(contracts[a].name) => contracts'[a].name = contracts[a].name
                /\ Truthy(contracts[a].abi) => contracts'[a].abi = contracts[a].abi]_vars

(***************************************************************************)
(* Claims about the artifacts                                              *)
(***************************************************************************)
\* the events before e for the same file that resolved an address
EarlierResolved(e) ==
    {d \in 1..(e - 1) : events[d].file = events[e].file /\ Truthy(events[d].addr)}

\* the last address seen for the contract of event e before e (Absent if none)
PrevAddr(e) ==
    IF EarlierResolved(e) = {} THEN Absent
    ELSE events[CHOOSE d \in EarlierResolved(e) : \A x \in EarlierResolved(e) : x <= d].addr

\* event e issued a persistence write
Wrote(e) ==
    \/ events[e].result = "contract"
    \/ \E op \in artOps : op.ev = e
    \/ events[e].stored # {} \/ events[e].failed # {}

\* C8: an event issues persistence writes only when the address it resolved
\* differs from the last address seen for that contract; an event that resolves
\* the address seen last issues no write, blob or contract document.
C8_ChangeDetection ==
    \A e \in 1..Len(events) :
        Wrote(e) => (Truthy(events[e].addr) /\ events[e].addr # PrevAddr(e))

\* the same file resolved twice with the same address: the first event wrote,
\* the second did not
C8_Witness ==
    \E e1, e2 \in 1..Len(events) :
        /\ e1 < e2
        /\ events[e1].file = events[e2].file
        /\ Wrote(e1)
        /\ events[e2].addr = events[e1].addr
        /\ ~Wrote(e2)

\* event e failed after its address was resolved
FailedAfterAddress(e) ==
    /\ Truthy(events[e].addr)
    /\ events[e].result = "threw" \/ events[e].failed # {}

\* C9 (as claimed): when the last event for a file failed after its address was
\* resolved, the next event for that file, with the same address, runs the
\* resolution again (it returns a contract, whose writes are issued, or fails
\* again on a dependency).
C9_FailedArtifactIsRetried ==
    [][Len(events') = Len(events) + 1 =>
        LET new == events'[Len(events')] IN
        \A e \in 1..Len(events) :
            ( /\ events[e].file = new.file
              /\ \A d \in (e + 1)..Len(events) : events[d].file # new.file
              /\ FailedAfterAddress(e)
              /\ files[new.file].st = "ok"
              /\ files[new.file].addr = events[e].addr )
                => new.result \in {"contract", "threw"}]_vars

\* event e is for a file that could not be parsed, that lacked a required field
\* (its abi), or that named a dependency whose file was missing
Unusable(e) == events[e].result = "threw" \/ events[e].st = "noAbi"

\* C14 (as claimed): an event for a file that cannot be parsed, lacks a required
\* field or names a missing dependency issues no persistence write.
C14_UnusableArtifactWritesNothing ==
    \A e \in 1..Len(events) : Unusable(e) => ~Wrote(e)

\* C11: the dependency map of a resolved artifact has exactly the exported
\* symbols other than the contract's own name as keys, each holding the bundle
\* {contractName, abi, ast, source} of that dependency's own artifact file; a
\* symbol that only a dependency exports is not a key.
C11_DependenciesOneLevelDeep ==
    \A e \in 1..Len(events) :
        events[e].result = "contract" =>
            LET f == events[e].file
                deps == events[e].deps IN
            /\ DOMAIN deps = exportedSymbols(f) \ {contractNameOf(f)}
            /\ \A key \in DOMAIN deps :
                    /\ deps[key] = [contractName |-> contractNameOf(fileOf(key)),
                                    abi |-> abiOf(fileOf(key)),
                                    ast |-> exportedSymbols(fileOf(key)),
                                    source |-> sourceOf(fileOf(key))]
                    /\ (exportedSymbols(fileOf(key)) \ exportedSymbols(f))
                            \cap DOMAIN deps = {}

\* A.json exports {A, B} and B.json exports {B, C}: the map of A has the key B only
C11_Witness ==
    \E e \in 1..Len(events) :
        /\ events[e].file = "A.json"
        /\ events[e].result = "contract"
        /\ DOMAIN events[e].deps = {"B"}
        /\ "C" \in events[e].deps["B"].ast

(***************************************************************************)
(* Specification of the controller alone, in every configuration: the     *)
(* subscriptions, their events, the reconnect timers and the headers.  A   *)
(* timer that is set fires (the event loop runs it once its delay has      *)
(* elapsed): weak fairness of reconnectTimer.                              *)
(***************************************************************************)
NextController ==
    \/ listen
    \/ reconnectTimer
    \/ \E s \in 1..Len(subs) : onConnected(s)
    \/ \E s \in 1..Len(subs) : \E hasReason \in BOOLEAN : onData(s, hasReason)
    \/ \E s \in 1..Len(subs) : onError(s)
    \/ newBlock(MaxHeight)

SpecController == Init /\ [][NextController]_vars /\ WF_vars(reconnectTimer)

\* C12: after every subscription error the connect sequence runs again: once the
\* k-th error has been emitted, connect is eventually called for the (k+1)-th
\* time (each call of a listening configuration creates one subscription).
C12_EveryErrorReconnects ==
    \A k \in 1..MaxErrors : (nerrors = k) ~> (Len(subs) >= k + 1)

\* every error the model allows has happened and each was followed by a connect
C12_Witness ==
    /\ nerrors = MaxErrors
    /\ timers = 0
    /\ Len(subs) = MaxErrors + 1

\* C13: in the --local configuration connect creates no subscription: there is
\* no subscription, no backfill pass, no block or transaction request, no
\* transaction document and no reconnect timer, in any reachable state.
C13_LocalNeverSubscribes ==
    options.local =>
        /\ subs = <<>>
        /\ passes = <<>>
        /\ ops = {}
        /\ txOps = {} /\ txDone = {}
        /\ \A t \in Txs : ~transactions[t].exists
        /\ timers = 0 /\ nerrors = 0

\* --local after listen(): the watcher is there, the chain is at its last block
C13_Witness ==
    /\ options.local
    /\ started
    /\ watchers = 1
    /\ height = MaxHeight

(***************************************************************************)
(* Specification of a backfill pass beside the header events of the same   *)
(* subscription: a block can be synced by both                             *)
(***************************************************************************)
NextHeaders ==
    \/ NextBackfill
    \/ \E s \in 1..Len(subs) : \E hasReason \in BOOLEAN : onData(s, hasReason)

SpecHeaders == InitBackfill /\ [][NextHeaders]_vars

\* the syncs of block n whose write of the block document succeeded
SyncsWritten(n) ==
    {<<"pass", p>> : p \in {q \in 1..Len(passes) : n \in passes[q].written}}
        \cup {<<"sub", s>> : s \in {q \in 1..Len(subs) : n \in subs[q].written}}

\* the documents of the blocks collection whose number is n
RecordsOf(n) == {id \in BlockNumbers : blockDocs[id].exists /\ blockDocs[id].number = n}

\* C15: however many syncs of block n have written it, and in whatever order,
\* the collection holds one document for number n, under the id n, and it is
\* the document a single sync leaves.
C15_SyncBlockIdempotent ==
    \A n \in BlockNumbers :
        SyncsWritten(n) # {} =>
            /\ RecordsOf(n) = {n}
            /\ n \in blocks
            /\ blockDocs[n] = [exists |-> TRUE, number |-> n, transactions |-> chain[n]]

\* a block written once by the backfill and once from a header event
C15_Witness ==
    \E n \in BlockNumbers :
        /\ \E p \in 1..Len(passes) : n \in passes[p].written
        /\ \E s \in 1..Len(subs) : n \in subs[s].written

(***************************************************************************)
(* Specification of the transaction syncs of one block over a store of an  *)
(* earlier run: block 1 holds the three transactions, the chain is at      *)
(* block 2, and the contract document of 0xA1 is there, with or without    *)
(* the name and ABI of A, or not there                                     *)
(***************************************************************************)
InitTransactions ==
    /\ options = [local |-> FALSE, server |-> FALSE, rpc |-> "ws"]
    /\ started = FALSE
    /\ timers = 0
    /\ nerrors = 0
    /\ disconnected = FALSE
    /\ subs = <<>>
    /\ watchers = 0
    /\ height = 2
    /\ blocks = {}
    /\ passes = <<>>
    /\ ops = {}
    /\ chain = [n \in BlockNumbers |-> IF n = 1 THEN Txs ELSE {}]
    /\ blockDocs = [id \in BlockNumbers |-> NoBlock]
    /\ contracts \in
          {[a \in Addrs |-> IF a = "0xA1" THEN doc ELSE NoContract] :
              doc \in {NoContract,
                       [exists |-> TRUE, address |-> "0xA1", name |-> Absent, abi |-> Absent],
                       [exists |-> TRUE, address |-> "0xA1", name |-> "A", abi |-> "abiA"]}}
    /\ transactions = [t \in Txs |-> NoTransaction]
    /\ txOps = {}
    /\ txDone = {}
    /\ storage = {}
    /\ contractAddresses = [c \in ContractNames |-> Absent]
    /\ events = <<>>
    /\ artOps = {}
    /\ files = [f \in Files |-> [st |-> "ok", addr |-> Null]]

NextTransactions ==
    \/ listen
    \/ \E s \in 1..Len(subs) : onConnected(s)
    \/ \E p \in 1..Len(passes) : \E ok \in BOOLEAN : snapshotResolved(p, ok)
    \/ \E p \in 1..Len(passes) : \E ok \in BOOLEAN : latestResolved(p, ok)
    \/ \E op \in ops : \E ok \in BOOLEAN : getBlockSettled(op, ok)
    \/ \E op \in ops : \E ok \in BOOLEAN : setBlockSettled(op, ok)
    \/ \E op \in txOps : \E ok \in BOOLEAN : receiptSettled(op, ok)
    \/ \E op \in txOps : \E ok \in BOOLEAN : getContractSettled(op, ok)
    \/ \E op \in txOps : \E ok \in BOOLEAN : setTransactionSettled(op, ok)
    \/ \E op \in txOps : \E ok \in BOOLEAN : setContractSettled(op, ok)

SpecTransactions == InitTransactions /\ [][NextTransactions]_vars

\* the syncs there have been: each is started by a pass or by a header
Sources ==
    {<<"pass", p>> : p \in 1..Len(passes)} \cup {<<"sub", s>> : s \in 1..Len(subs)}

\* the request of the given kind of the sync of t started by src has resolved
Resolved(kind, src, t) ==
    [kind |-> kind, src |-> src, tx |-> t, end |-> "resolved"] \in txDone

\* the write of the document of t by the sync src started has been issued
WriteIssued(src, t) ==
    \/ \E op \in txOps : op.kind = "setTransaction" /\ op.src = src /\ op.tx = t
    \/ \E d \in txDone : d.kind = "setTransaction" /\ d.src = src /\ d.tx = t

\* C16: the write of a transaction document is issued only once the receipt of
\* that sync has been fetched and, for a transaction with to, input and value,
\* once its signature resolution has completed.
C16_WriteAfterReceiptAndSignature ==
    \A t \in Txs : \A src \in Sources :
        WriteIssued(src, t) =>
            /\ Resolved("getReceipt", src, t)
            /\ (Tx(t).to # Null /\ Tx(t).input # Null /\ Tx(t).value # Null)
                    => Resolved("getContract", src, t)

\* the document of tKnown is written, with its signature, while the receipt of
\* tCreate, of the same block, is still awaited: the writes are not ordered
C16_Witness ==
    \E d \in txDone :
        /\ d.kind = "setTransaction" /\ d.tx = "tKnown" /\ d.end = "resolved"
        /\ Resolved("getContract", d.src, "tKnown")
        /\ txOp("getReceipt", d.src, "tCreate", Absent) \in txOps

\* to, input and value of t are all there (neither null nor undefined)
AllPresent(t) == \A v \in {Tx(t).to, Tx(t).input, Tx(t).value} : v \notin {Null, Absent}

\* the signature resolution of the sync of t started by src has been invoked
SignatureInvoked(src, t) ==
    \/ \E op \in txOps : op.kind = "getContract" /\ op.src = src /\ op.tx = t
    \/ \E d \in txDone : d.kind = "getContract" /\ d.src = src /\ d.tx = t

C18_NoRoutingWhileDisconnected ==
    [][disconnected =>
        \A op \in ops' \ ops : ~(op.kind = "getBlock" /\ op.src[1] = "sub")]_vars

\* C19 (as claimed): whatever the sequence of connect, 'connected' and
\* error/reconnect events, the artifacts directory has at most one watcher.
C19_AtMostOneWatcher == watchers <= 1

\* the write of the contract document of event e has been issued
ContractWriteIssued(e) ==
    \/ [kind |-> "contract", ev |-> e] \in artOps
    \/ "contract" \in events[e].stored \cup events[e].failed

\* C20: the contract document of an event is written only after both blob
\* writes of that event have succeeded; after a failed blob write it is not
\* written, and a contract document only ever comes from such an event.
C20_ContractAfterBothBlobs ==
    /\ \A e \in 1..Len(events) :
            /\ ContractWriteIssued(e) => {"artifact", "dependencies"} \subseteq events[e].stored
            /\ events[e].failed \cap {"artifact", "dependencies"} # {} => ~ContractWriteIssued(e)
    /\ \A a \in Addrs :
            Truthy(contracts[a].name) =>
                \E e \in 1..Len(events) :
                    /\ events[e].addr = a
                    /\ {"artifact", "dependencies", "contract"} \subseteq events[e].stored

\* one event whose blob writes both succeeded and whose contract document is
\* written, and one whose artifact blob succeeded, whose dependencies blob failed
\* and which is over without a contract write
C20_Witness ==
    \E e1, e2 \in 1..Len(events) :
        /\ {"artifact", "dependencies", "contract"} \subseteq events[e1].stored
        /\ "artifact" \in events[e2].stored
        /\ "dependencies" \in events[e2].failed
        /\ \A op \in artOps : op.ev # e2

====
